---- MODULE Spec2Model ----
(***************************************************************************)
(* A model of the WiFi captive portal of src/wifi_connect.py.              *)
(*                                                                         *)
(* The process has a main thread (WiFiConnect.run), the request threads of *)
(* the threaded development server started by app.run, and one daemon      *)
(* thread per successful POST /connect (shutdown_hotspot_delayed).  Every  *)
(* external nmcli invocation is a step whose outcome the environment       *)
(* chooses: exit status zero, exit status non-zero, a timeout where the    *)
(* call sets one, or an exception raised by subprocess.run itself.         *)
(* Creating a thread and building a JSON response are taken to succeed.    *)
(***************************************************************************)
EXTENDS Integers, Sequences, FiniteSets, TLC

\* ---- bounds of the model ------------------------------------------------
NumHandlers == 2      \* request threads that can be active at once
MaxRequests == 2      \* requests accepted in one process lifetime
MaxLines == 3         \* lines in one output of the list-networks command

Handlers == 1..NumHandlers

\* Python's None as dict.get returns it for a missing key.
None == "<None>"
\* A request body that get_json does not turn into an object (JSON null).
NullBody == [null |-> TRUE]

VARIABLES
    pcMain,             \* position of the main thread in run(), with the commands
                        \* create_hotspot has issued while it runs and as it returns
    is_hotspot_active,  \* self.is_hotspot_active
    connection_status,  \* self.connection_status
    pc,                 \* pc[t]: position of request thread t in connect_wifi
    data,               \* data[t]: the JSON body request thread t works on
    calls,              \* calls[t]: nmcli commands t's request issued, with their outcomes
    wrote,              \* wrote[t]: t's request has changed PortalState
    timers,             \* timers[p]: number of shutdown_hotspot_delayed threads at p
    terminated,         \* the process has ended
    last,               \* the most recently completed request and its response
    hist,               \* history of the process (counters the claims speak of)
    nreq                \* requests accepted so far

vars == <<pcMain, is_hotspot_active, connection_status, pc, data, calls, wrote,
          timers, terminated, last, hist, nreq>>

\* self.hotspot_name, set once in __init__ and never assigned again.
hotspot_name == "Setup-Robot-WiFi"

\* ---- outcomes of external invocations -----------------------------------
\* subprocess.run without check and without timeout: it returns a completed
\* process with some exit status, or raises (OSError and the like).
RunOutcomes == {"zero", "nonzero", "raise"}
\* subprocess.run(cmd, timeout=30): may also raise TimeoutExpired.
JoinOutcomes == {"zero", "nonzero", "timeout", "raise"}
\* nmcli device show: output with or without an IP4.ADDRESS line, or a raise.
ShowOutcomes == {"ip", "noip", "raise"}

\* ---- responses -----------------------------------------------------------
\* jsonify(d): HTTP 200 with the JSON object d.
jsonify(d) == [code |-> 200, kind |-> "json", json |-> d]
\* the embedded page
render_portal_page == [code |-> 200, kind |-> "html", json |-> <<>>]
\* the framework's answer to a path no route matches
NotFound == [code |-> 404, kind |-> "html", json |-> <<>>]

NoResponse == [code |-> 0, kind |-> "none", json |-> <<>>]

\* The record kept of a completed request: its path and body, what
\* connect_to_network returned for it ("none" when it was not called), the
\* response, the nmcli commands it issued with the outcome of each, whether it
\* changed PortalState and how many shutdown threads it started.
NoRequest == [path |-> "", data |-> NullBody, result |-> "none", resp |-> NoResponse,
              calls |-> <<>>, wrote |-> FALSE, armed |-> 0]

\* dict.get(key, default)
Get(d, key, default) == IF key \in DOMAIN d THEN d[key] ELSE default

TimerPcs == {"sleep", "down", "delete", "exit"}

\* ---- shutdown_hotspot ----------------------------------------------------
\* One step of shutdown_hotspot for a thread at `at` ("down" or "delete")
\* whose subprocess.run ended with outcome o.  Neither call checks the exit
\* status; a raise leaves the try block for the except clause, which only
\* logs.  The result is the thread's next position and the new flag.
shutdown_hotspot(at, o, active) ==
    IF o = "raise" THEN [at |-> "exit", active |-> active]
    ELSE IF at = "down" THEN [at |-> "delete", active |-> active]
    ELSE [at |-> "exit", active |-> FALSE]

\* ---- create_hotspot ------------------------------------------------------
\* One step of create_hotspot for the main thread at `at`, one of "delete",
\* "add", "modify", "up".  The delete's exit status is not looked at; add and
\* up raise on a non-zero status, modify runs with check=True; whatever is
\* raised is caught and create_hotspot returns False.
create_hotspot(at, o, active) ==
    IF o = "raise" \/ (o = "nonzero" /\ at # "delete")
    THEN [at |-> "failed", active |-> active]
    ELSE IF at = "delete" THEN [at |-> "add", active |-> active]
    ELSE IF at = "add" THEN [at |-> "modify", active |-> active]
    ELSE IF at = "modify" THEN [at |-> "up", active |-> active]
    ELSE [at |-> "created", active |-> TRUE]

\* ---- text, as sequences of one-character strings ------------------------
Digits == {"0", "1", "2", "3", "4", "5", "6", "7", "8", "9"}

DigitValue(c) ==
    CASE c = "0" -> 0 [] c = "1" -> 1 [] c = "2" -> 2 [] c = "3" -> 3 [] c = "4" -> 4
      [] c = "5" -> 5 [] c = "6" -> 6 [] c = "7" -> 7 [] c = "8" -> 8 [] c = "9" -> 9

IsSpace(c) == c \in {" ", "\n", "\t"}

\* str.strip()
RECURSIVE LStrip(_)
LStrip(s) == IF s # <<>> /\ IsSpace(Head(s)) THEN LStrip(Tail(s)) ELSE s

RECURSIVE RStrip(_)
RStrip(s) ==
    IF s # <<>> /\ IsSpace(s[Len(s)]) THEN RStrip(SubSeq(s, 1, Len(s) - 1)) ELSE s

Strip(s) == RStrip(LStrip(s))

\* str.split(sep) for a one-character separator: always at least one part.
RECURSIVE Split(_, _)
Split(s, sep) ==
    IF \E i \in 1..Len(s) : s[i] = sep
    THEN LET i == CHOOSE j \in 1..Len(s) :
                      s[j] = sep /\ \A k \in 1..(j - 1) : s[k] # sep
         IN  <<SubSeq(s, 1, i - 1)>> \o Split(SubSeq(s, i + 1, Len(s)), sep)
    ELSE <<s>>

\* str.isdigit()
IsDigit(s) == s # <<>> /\ \A i \in 1..Len(s) : s[i] \in Digits

\* int(s) for a string of digits
RECURSIVE ParseInt(_)
ParseInt(s) == IF s = <<>> THEN 0 ELSE 10 * ParseInt(SubSeq(s, 1, Len(s) - 1)) + DigitValue(s[Len(s)])

\* ---- scan_wifi_networks ---------------------------------------------------
\* int(parts[1]) if parts[1].isdigit() else -100
SignalOf(part) == IF IsDigit(part) THEN ParseInt(part) ELSE -100

\* parts[2].strip() if parts[2] else 'Open'
SecurityOf(part) == IF part # <<>> THEN Strip(part) ELSE <<"O", "p", "e", "n">>

\* ParseLine without the seen_ssids test.
ParseLine_keep_duplicates(line, networks) ==
    LET parts == Split(line, ":")
    IN  IF line = <<>> \/ Len(parts) < 3 THEN networks
        ELSE LET ssid == Strip(parts[1])
             IN  IF ssid # <<>>
                 THEN Append(networks, [ssid |-> ssid,
                                        signal |-> SignalOf(parts[2]),
                                        security |-> SecurityOf(parts[3])])
                 ELSE networks

\* ParseLine without the test that the name is not empty.
ParseLine_keep_empty(line, networks) ==
    LET parts == Split(line, ":")
    IN  IF line = <<>> \/ Len(parts) < 3 THEN networks
        ELSE LET ssid == Strip(parts[1])
                 seen_ssids == {networks[i].ssid : i \in 1..Len(networks)}
             IN  IF ssid \notin seen_ssids
                 THEN Append(networks, [ssid |-> ssid,
                                        signal |-> SignalOf(parts[2]),
                                        security |-> SecurityOf(parts[3])])
                 ELSE networks

\* The body of the for loop, for one line and the list built so far.
ParseLine(line, networks) ==
    LET parts == Split(line, ":")
    IN  IF line = <<>> \/ Len(parts) < 3 THEN networks
        ELSE LET ssid == Strip(parts[1])
                 seen_ssids == {networks[i].ssid : i \in 1..Len(networks)}
             IN  IF ssid # <<>> /\ ssid \notin seen_ssids
                 THEN Append(networks, [ssid |-> ssid,
                                        signal |-> SignalOf(parts[2]),
                                        security |-> SecurityOf(parts[3])])
                 ELSE networks

RECURSIVE ParseLines(_, _)
ParseLines(lines, networks) ==
    IF lines = <<>> THEN networks
    ELSE ParseLines(Tail(lines), ParseLine(Head(lines), networks))

\* list.sort(key=signal, reverse=True): stable, so an element goes after
\* every element already placed whose signal is not lower.
RECURSIVE SortBySignal(_)
SortBySignal(networks) ==
    IF networks = <<>> THEN <<>>
    ELSE LET n == Len(networks)
             x == networks[n]
             rest == SortBySignal(SubSeq(networks, 1, n - 1))
             k == Cardinality({i \in 1..Len(rest) : rest[i].signal >= x.signal})
         IN  SubSeq(rest, 1, k) \o <<x>> \o SubSeq(rest, k + 1, Len(rest))

\* scan_wifi_networks for a list command that ended with outcome o and
\* printed stdout.  check=True turns a non-zero status into
\* CalledProcessError, the one exception caught here; anything else raised
\* by subprocess.run leaves the function.
scan_wifi_networks(o, stdout) ==
    IF o = "zero"
    THEN [raised |-> FALSE,
          networks |-> SortBySignal(ParseLines(Split(Strip(stdout), "\n"), <<>>))]
    ELSE IF o = "nonzero" THEN [raised |-> FALSE, networks |-> <<>>]
    ELSE [raised |-> TRUE, networks |-> <<>>]

\* The scan route: the list in a success envelope, or str(e) in an error one.
scan_networks(o, stdout) ==
    LET r == scan_wifi_networks(o, stdout)
    IN  IF r.raised
        THEN jsonify([success |-> FALSE, error |-> "[Errno 2] No such file or directory: 'nmcli'"])
        ELSE jsonify([success |-> TRUE, networks |-> r.networks])

\* ---- connect_to_network ---------------------------------------------------
\* `if password is not None:`
HasPassword_not_none(password) == password # None

\* `if password:`
HasPassword(password) == password # "" /\ password # None

\* The join command line.
JoinCommand(ssid, password) ==
    IF HasPassword(password)
    THEN <<"nmcli", "device", "wifi", "connect", ssid, "password", password>>
    ELSE <<"nmcli", "device", "wifi", "connect", ssid>>

\* The command a request thread at `at` issues for the body d.
CommandAt(at, d) ==
    CASE at = "delete" -> <<"nmcli", "connection", "delete", "id", d.ssid>>
      [] at = "join" -> JoinCommand(d.ssid, Get(d, "password", ""))
      [] at = "show" -> <<"nmcli", "device", "show", "wlan0">>

OutcomesAt(at) ==
    CASE at = "delete" -> RunOutcomes
      [] at = "join" -> JoinOutcomes
      [] at = "show" -> ShowOutcomes

\* connect_to_network setting connection_status only once an address shows.
connect_to_network_verified_first(at, o, status) ==
    CASE at = "delete" ->
            IF o = "raise" THEN [at |-> "idle", status |-> status, ret |-> "False"]
            ELSE [at |-> "join", status |-> status, ret |-> "none"]
      [] at = "join" ->
            IF o = "zero" THEN [at |-> "show", status |-> status, ret |-> "none"]
            ELSE [at |-> "idle", status |-> status, ret |-> "False"]
      [] at = "show" ->
            IF o = "raise" THEN [at |-> "idle", status |-> status, ret |-> "False"]
            ELSE [at |-> "idle", ret |-> "True",
                  status |-> IF o = "ip" THEN "connected" ELSE status]

\* connect_to_network resetting connection_status when the join fails.
connect_to_network_reset_on_failure(at, o, status) ==
    CASE at = "delete" ->
            IF o = "raise" THEN [at |-> "idle", status |-> status, ret |-> "False"]
            ELSE [at |-> "join", status |-> status, ret |-> "none"]
      [] at = "join" ->
            IF o = "zero" THEN [at |-> "show", status |-> "connected", ret |-> "none"]
            ELSE [at |-> "idle", status |-> "disconnected", ret |-> "False"]
      [] at = "show" ->
            IF o = "raise" THEN [at |-> "idle", status |-> status, ret |-> "False"]
            ELSE [at |-> "idle", status |-> status, ret |-> "True"]

\* connect_to_network setting connection_status as soon as the old profile
\* is deleted.
connect_to_network_connected_early(at, o, status) ==
    CASE at = "delete" ->
            IF o = "raise" THEN [at |-> "idle", status |-> status, ret |-> "False"]
            ELSE [at |-> "join", status |-> "connected", ret |-> "none"]
      [] at = "join" ->
            IF o = "zero" THEN [at |-> "show", status |-> "connected", ret |-> "none"]
            ELSE [at |-> "idle", status |-> status, ret |-> "False"]
      [] at = "show" ->
            IF o = "raise" THEN [at |-> "idle", status |-> status, ret |-> "False"]
            ELSE [at |-> "idle", status |-> status, ret |-> "True"]

\* One step of connect_to_network for a thread at `at` whose invocation ended
\* with outcome o: the next position, the new connection_status and the
\* value returned ("none" while the function is still running).
connect_to_network(at, o, status) ==
    CASE at = "delete" ->
            IF o = "raise" THEN [at |-> "idle", status |-> status, ret |-> "False"]
            ELSE [at |-> "join", status |-> status, ret |-> "none"]
      [] at = "join" ->
            IF o = "zero" THEN [at |-> "show", status |-> "connected", ret |-> "none"]
            ELSE [at |-> "idle", status |-> status, ret |-> "False"]
      [] at = "show" ->
            IF o = "raise" THEN [at |-> "idle", status |-> status, ret |-> "False"]
            ELSE [at |-> "idle", status |-> status, ret |-> "True"]

\* ---- connect_wifi ---------------------------------------------------------
\* `if ssid is None:`
ssid_missing_only_none(ssid) == ssid = None

\* `if not ssid:`
ssid_missing(ssid) == ssid = None \/ ssid = ""

\* The response connect_wifi builds from connect_to_network's result.
connect_response(success, ssid) ==
    IF success
    THEN jsonify([success |-> TRUE,
                  message |-> <<"Successfully connected to ", ssid,
                                "! Portal will shut down in a few seconds.">>,
                  connected |-> TRUE,
                  ssid |-> ssid])
    ELSE jsonify([success |-> FALSE,
                  error |-> "Failed to connect to network. Please check your credentials and try again."])

\* The route starting the shutdown thread when connect_to_network failed.
ThreadsStarted_on_failure(success) == IF success THEN 0 ELSE 1

\* The route starting the shutdown thread whatever connect_to_network returned.
ThreadsStarted_always(success) == 1

\* Threads the route starts after connect_to_network returned `success`.
ThreadsStarted(success) == IF success THEN 1 ELSE 0

\* The bodies a client may post.
Bodies == {NullBody, <<>>, [ssid |-> ""], [ssid |-> "Home-5G"],
           [ssid |-> "Home-5G", password |-> "secret"]}

Accepting == ~terminated /\ pcMain.fn = "app.run"

\* POST /connect arrives and is given to a free thread (the threads are
\* alike, so the first free one): the body is read and checked.
connect_wifi_begin(t, d) ==
    /\ Accepting
    /\ pc[t] = "idle"
    /\ \A u \in Handlers : u < t => pc[u] # "idle"
    /\ IF "null" \in DOMAIN d
       THEN /\ last' = [NoRequest EXCEPT !.path = "/connect", !.data = d,
                           !.resp = jsonify([success |-> FALSE,
                               error |-> "'NoneType' object has no attribute 'get'"])]
            /\ UNCHANGED <<pc, data>>
       ELSE IF ssid_missing(Get(d, "ssid", None))
       THEN /\ last' = [NoRequest EXCEPT !.path = "/connect", !.data = d,
                           !.resp = jsonify([success |-> FALSE,
                                             error |-> "SSID is required"])]
            /\ UNCHANGED <<pc, data>>
       ELSE /\ pc' = [pc EXCEPT ![t] = "delete"]
            /\ data' = [data EXCEPT ![t] = d]
            /\ UNCHANGED last
    /\ UNCHANGED <<pcMain, is_hotspot_active, connection_status, calls, wrote,
                   timers, terminated, hist>>

\* A request thread inside connect_to_network takes its next step; when the
\* function returns, the route starts the shutdown thread (on success) and
\* answers.
connect_wifi_step(t) ==
    /\ ~terminated
    /\ pc[t] # "idle"
    /\ \E o \in OutcomesAt(pc[t]) :
          LET r == connect_to_network(pc[t], o, connection_status)
              issued == Append(calls[t], [cmd |-> CommandAt(pc[t], data[t]), o |-> o])
              changed == wrote[t] \/ r.status # connection_status
              started == ThreadsStarted(r.ret = "True")
          IN  /\ connection_status' = r.status
              /\ pc' = [pc EXCEPT ![t] = r.at]
              /\ IF r.ret = "none"
                 THEN /\ calls' = [calls EXCEPT ![t] = issued]
                      /\ wrote' = [wrote EXCEPT ![t] = changed]
                      /\ UNCHANGED <<data, last, timers>>
                      /\ hist' = [hist EXCEPT !.join_zero =
                                                  @ \/ (pc[t] = "join" /\ o = "zero")]
                 ELSE /\ calls' = [calls EXCEPT ![t] = <<>>]
                      /\ wrote' = [wrote EXCEPT ![t] = FALSE]
                      /\ data' = [data EXCEPT ![t] = NullBody]
                      /\ timers' = [timers EXCEPT !["sleep"] = @ + started]
                      /\ last' = [path |-> "/connect", data |-> data[t],
                                  result |-> r.ret,
                                  resp |-> connect_response(r.ret = "True", data[t].ssid),
                                  calls |-> issued, wrote |-> changed,
                                  armed |-> started]
                      /\ hist' = [hist EXCEPT !.armed = @ + started,
                                              !.ok_returned = @ \/ (r.ret = "True"),
                                              !.join_zero =
                                                  @ \/ (pc[t] = "join" /\ o = "zero"),
                                              !.failed_first =
                                                  @ \/ (pc[t] = "join" /\ nreq = 1)]
    /\ UNCHANGED <<pcMain, is_hotspot_active, terminated>>

\* ---- the other routes -----------------------------------------------------
\* get_status answering with the values __init__ set.
get_status_initial ==
    jsonify([hotspot_active |-> FALSE,
             connection_status |-> "disconnected",
             hotspot_name |-> hotspot_name])

\* get_status
get_status ==
    jsonify([hotspot_active |-> is_hotspot_active,
             connection_status |-> connection_status,
             hotspot_name |-> hotspot_name])

\* A request with input d that is answered without leaving its handler.
Serve(path, d, resp) ==
    /\ Accepting
    /\ last' = [NoRequest EXCEPT !.path = path, !.data = d, !.resp = resp]
    /\ UNCHANGED <<pcMain, is_hotspot_active, connection_status, pc, data, calls,
                   wrote, timers, terminated, hist>>

index == Serve("/", <<>>, render_portal_page)

portal == Serve("/portal", <<>>, render_portal_page)

status_route == Serve("/status", <<>>, get_status)

\* setup_routes registers /, /portal, /scan, /connect and /status and nothing
\* else: the page's POST /shutdown matches no route.
shutdown_route == Serve("/shutdown", <<>>, NotFound)

\* Lines the list command may print, one record each.
ScanLines == {
    <<"A", ":", "4", "0", ":", "W">>,
    <<"A", ":", "7", "0", ":", "W">>,
    <<"B", ":", "7", "0", ":">>,
    <<"B", ":", "4", "0", ":", "W">>,
    <<":", "5", "0", ":">>,
    <<" ", ":", "9", "0", ":", "W">>,
    <<"C", ":", "-", "4", "0", ":", "W">>,
    <<"C", ":", "4", "0">>,
    <<>>,
    <<"A", "\\", ":", "B", ":", "4", "0", ":", "W">> }

\* "\n".join(lines) + "\n"
RECURSIVE JoinLines(_)
JoinLines(lines) ==
    IF lines = <<>> THEN <<>> ELSE Head(lines) \o <<"\n">> \o JoinLines(Tail(lines))

RECURSIVE LinesUpTo(_)
LinesUpTo(n) ==
    IF n = 0 THEN {<<>>}
    ELSE LET shorter == LinesUpTo(n - 1)
         IN  shorter \cup {Append(ls, l) : ls \in shorter, l \in ScanLines}

\* Every output of at most MaxLines lines.
ScanOutputs == {JoinLines(ls) : ls \in LinesUpTo(MaxLines)}

\* The outputs the portal is run against.
PortalScanOutputs == {
    JoinLines(<<<<"A", ":", "4", "0", ":", "W">>, <<"B", ":", "7", "0", ":">>>>) }

\* The scan route taking a list command that cannot be run for the end of
\* the access point.
scan_route_marks_inactive(outputs) ==
    \E o \in RunOutcomes : \E stdout \in outputs :
        /\ o # "zero" => stdout = CHOOSE x \in outputs : TRUE
        /\ Accepting
        /\ last' = [NoRequest EXCEPT !.path = "/scan",
                                     !.data = [o |-> o, stdout |-> stdout],
                                     !.resp = scan_networks(o, stdout)]
        /\ is_hotspot_active' = (is_hotspot_active /\ o # "raise")
        /\ UNCHANGED <<pcMain, connection_status, pc, data, calls, wrote, timers,
                       terminated, hist>>

scan_route(outputs) ==
    \E o \in RunOutcomes : \E stdout \in outputs :
        /\ o # "zero" => stdout = CHOOSE x \in outputs : TRUE
        /\ Serve("/scan", [o |-> o, stdout |-> stdout], scan_networks(o, stdout))

\* ---- run ------------------------------------------------------------------
\* The main thread at position `at` of function fn, with the log kept while
\* create_hotspot runs.
At(fn, at) == [fn |-> fn, at |-> at, log |-> <<>>]

\* The nmcli subcommand create_hotspot issues at `at`.
CreateCommand(at) ==
    CASE at = "delete" -> <<"nmcli", "connection", "delete", "Hotspot">>
      [] at = "add" -> <<"nmcli", "connection", "add">>
      [] at = "modify" -> <<"nmcli", "connection", "modify", "Hotspot">>
      [] at = "up" -> <<"nmcli", "connection", "up", "Hotspot">>

\* run() inside create_hotspot; when it returns, run() is at "created" or
\* "failed" with what create_hotspot issued.
run_create ==
    /\ ~terminated
    /\ pcMain.fn = "create_hotspot"
    /\ \E o \in RunOutcomes :
          LET r == create_hotspot(pcMain.at, o, is_hotspot_active)
              log == Append(pcMain.log, [cmd |-> CreateCommand(pcMain.at), o |-> o])
          IN  /\ is_hotspot_active' = r.active
              /\ pcMain' = IF r.at \in {"created", "failed"}
                           THEN [fn |-> "run", at |-> r.at, log |-> log]
                           ELSE [fn |-> "create_hotspot", at |-> r.at, log |-> log]
              /\ hist' = [hist EXCEPT !.created = (r.at = "created")]
    /\ UNCHANGED <<connection_status, pc, data, calls, wrote, timers, terminated,
                   last, nreq>>

\* run() acting on what create_hotspot returned but starting the server
\* whichever it was.
run_after_create_unchecked ==
    /\ ~terminated
    /\ pcMain.fn = "run"
    /\ pcMain' = At("app.run", "serve")
    /\ UNCHANGED <<is_hotspot_active, connection_status, pc, data, calls, wrote,
                   timers, terminated, last, hist, nreq>>

\* run() acting on what create_hotspot returned: app.run on True; on False
\* the return, which enters the finally clause.
run_after_create ==
    /\ ~terminated
    /\ pcMain.fn = "run"
    /\ pcMain' = IF pcMain.at = "created" THEN At("app.run", "serve")
                 ELSE At("shutdown_hotspot", "down")
    /\ UNCHANGED <<is_hotspot_active, connection_status, pc, data, calls, wrote,
                   timers, terminated, last, hist, nreq>>

\* app.run ends (KeyboardInterrupt, or an exception of the server): the
\* finally clause runs.
run_interrupted ==
    /\ ~terminated
    /\ pcMain.fn = "app.run"
    /\ pcMain' = At("shutdown_hotspot", "down")
    /\ UNCHANGED <<is_hotspot_active, connection_status, pc, data, calls, wrote,
                   timers, terminated, last, hist, nreq>>

\* run() inside shutdown_hotspot, in the finally clause.
run_finally ==
    /\ ~terminated
    /\ pcMain.fn = "shutdown_hotspot"
    /\ pcMain.at # "exit"
    /\ \E o \in RunOutcomes :
          LET r == shutdown_hotspot(pcMain.at, o, is_hotspot_active)
          IN  /\ is_hotspot_active' = r.active
              /\ pcMain' = [pcMain EXCEPT !.at = r.at]
              /\ hist' = [hist EXCEPT !.teardowns = @ + (IF r.at = "exit" THEN 1 ELSE 0)]
    /\ UNCHANGED <<connection_status, pc, data, calls, wrote, timers, terminated,
                   last, nreq>>

\* run() returns: the main thread ends and, every other thread being a
\* daemon, so does the process.
run_return ==
    /\ ~terminated
    /\ pcMain = At("shutdown_hotspot", "exit")
    /\ terminated' = TRUE
    /\ UNCHANGED <<pcMain, is_hotspot_active, connection_status, pc, data, calls,
                   wrote, timers, last, hist, nreq>>

\* ---- shutdown_hotspot_delayed ---------------------------------------------
\* time.sleep(5) is over for one of the sleeping threads.
shutdown_hotspot_delayed_wake ==
    /\ ~terminated
    /\ timers["sleep"] > 0
    /\ timers' = [timers EXCEPT !["sleep"] = @ - 1, !["down"] = @ + 1]
    /\ UNCHANGED <<pcMain, is_hotspot_active, connection_status, pc, data, calls,
                   wrote, terminated, last, hist, nreq>>

\* shutdown_hotspot without its except clause: what subprocess.run raises
\* ends the thread before os._exit is reached.
shutdown_hotspot_delayed_shutdown_uncaught ==
    /\ ~terminated
    /\ \E at \in {"down", "delete"} : \E o \in RunOutcomes :
          LET r == shutdown_hotspot(at, o, is_hotspot_active)
          IN  /\ timers[at] > 0
              /\ is_hotspot_active' = r.active
              /\ timers' = IF o = "raise" THEN [timers EXCEPT ![at] = @ - 1]
                           ELSE [timers EXCEPT ![at] = @ - 1, ![r.at] = @ + 1]
              /\ hist' = [hist EXCEPT !.teardowns = @ + (IF r.at = "exit" THEN 1 ELSE 0)]
    /\ UNCHANGED <<pcMain, connection_status, pc, data, calls, wrote, terminated,
                   last, nreq>>

\* One of the threads inside shutdown_hotspot takes its next step.
shutdown_hotspot_delayed_shutdown ==
    /\ ~terminated
    /\ \E at \in {"down", "delete"} : \E o \in RunOutcomes :
          LET r == shutdown_hotspot(at, o, is_hotspot_active)
          IN  /\ timers[at] > 0
              /\ is_hotspot_active' = r.active
              /\ timers' = [timers EXCEPT ![at] = @ - 1, ![r.at] = @ + 1]
              /\ hist' = [hist EXCEPT !.teardowns = @ + (IF r.at = "exit" THEN 1 ELSE 0)]
    /\ UNCHANGED <<pcMain, connection_status, pc, data, calls, wrote, terminated,
                   last, nreq>>

\* shutdown_hotspot_delayed returning instead of ending the process.
shutdown_hotspot_delayed_return ==
    /\ ~terminated
    /\ timers["exit"] > 0
    /\ timers' = [timers EXCEPT !["exit"] = @ - 1]
    /\ UNCHANGED <<pcMain, is_hotspot_active, connection_status, pc, data, calls,
                   wrote, terminated, last, hist, nreq>>

\* os._exit(0)
shutdown_hotspot_delayed_exit ==
    /\ ~terminated
    /\ timers["exit"] > 0
    /\ terminated' = TRUE
    /\ UNCHANGED <<pcMain, is_hotspot_active, connection_status, pc, data, calls,
                   wrote, timers, last, hist, nreq>>

\* ---- the process ----------------------------------------------------------
\* The state after WiFiConnect.__init__, as run() is entered.
Init ==
    /\ pcMain = At("create_hotspot", "delete")
    /\ is_hotspot_active = FALSE
    /\ connection_status = "disconnected"
    /\ pc = [t \in Handlers |-> "idle"]
    /\ data = [t \in Handlers |-> NullBody]
    /\ calls = [t \in Handlers |-> <<>>]
    /\ wrote = [t \in Handlers |-> FALSE]
    /\ timers = [p \in TimerPcs |-> 0]
    /\ terminated = FALSE
    /\ last = NoRequest
    /\ hist = [created |-> FALSE, teardowns |-> 0, armed |-> 0,
               join_zero |-> FALSE, ok_returned |-> FALSE, failed_first |-> FALSE]
    /\ nreq = 0

\* A request is accepted while the budget of requests lasts.
Accept(handler) == nreq < MaxRequests /\ nreq' = nreq + 1 /\ handler

RequestIndex == Accept(index)
RequestPortal == Accept(portal)
RequestScan == Accept(scan_route(PortalScanOutputs))
RequestStatus == Accept(status_route)
RequestShutdown == Accept(shutdown_route)
RequestConnect == \E t \in Handlers : \E d \in Bodies : Accept(connect_wifi_begin(t, d))
ConnectStep == \E t \in Handlers : connect_wifi_step(t) /\ UNCHANGED nreq

Next ==
    \/ run_create
    \/ run_after_create
    \/ run_interrupted
    \/ run_finally
    \/ run_return
    \/ RequestIndex
    \/ RequestPortal
    \/ RequestScan
    \/ RequestStatus
    \/ RequestShutdown
    \/ RequestConnect
    \/ ConnectStep
    \/ shutdown_hotspot_delayed_wake
    \/ shutdown_hotspot_delayed_shutdown
    \/ shutdown_hotspot_delayed_exit

Spec == Init /\ [][Next]_vars

\* The shutdown threads are scheduled: a thread that can take its next step
\* eventually takes it (its sleep ends, its nmcli invocation returns or
\* raises, os._exit is reached).
TimerFairness ==
    /\ WF_vars(shutdown_hotspot_delayed_wake)
    /\ WF_vars(shutdown_hotspot_delayed_shutdown)
    /\ WF_vars(shutdown_hotspot_delayed_exit)

SpecLive == Init /\ [][Next]_vars /\ TimerFairness

\* The main thread is scheduled too once it is in the finally clause: its
\* nmcli invocations return or raise, and run() returns.
MainFairness ==
    /\ WF_vars(run_finally)
    /\ WF_vars(run_return)

SpecShutdown == Init /\ [][Next]_vars /\ TimerFairness /\ MainFairness

\* The scan route alone, against every bounded output of the list command,
\* in a portal that is up and serving.
InitScan ==
    /\ pcMain = At("app.run", "serve")
    /\ is_hotspot_active = TRUE
    /\ connection_status = "disconnected"
    /\ pc = [t \in Handlers |-> "idle"]
    /\ data = [t \in Handlers |-> NullBody]
    /\ calls = [t \in Handlers |-> <<>>]
    /\ wrote = [t \in Handlers |-> FALSE]
    /\ timers = [p \in TimerPcs |-> 0]
    /\ terminated = FALSE
    /\ last = NoRequest
    /\ hist = [created |-> TRUE, teardowns |-> 0, armed |-> 0,
               join_zero |-> FALSE, ok_returned |-> FALSE, failed_first |-> FALSE]
    /\ nreq = 0

\* One scan request per run: the route keeps nothing from one request to the
\* next, so a second request shows nothing the first does not.
ScanAny == nreq = 0 /\ nreq' = 1 /\ scan_route(ScanOutputs)

NextScan == ScanAny

SpecScan == InitScan /\ [][NextScan]_vars

\* ===========================================================================
\* Properties
\* ===========================================================================

\* The response is a JSON object with exactly the keys ks.
JsonWith(resp, ks) == resp.code = 200 /\ resp.kind = "json" /\ DOMAIN resp.json = ks

\* The error envelope {success:false, error: non-empty}.
ErrorEnvelope(resp) ==
    /\ JsonWith(resp, {"success", "error"})
    /\ resp.json.success = FALSE
    /\ resp.json.error # ""

\* C1: a POST /connect with a non-empty ssid for which connect_to_network
\* returned True is answered {success:true, connected:true, ssid: the
\* submitted ssid, message non-empty}; connection_status is "connected" when
\* the response is returned and the request started exactly one shutdown
\* thread.
C1_ConnectSuccess ==
    (last.path = "/connect" /\ last.result = "True") =>
        /\ last.data.ssid # ""
        /\ JsonWith(last.resp, {"success", "message", "connected", "ssid"})
        /\ last.resp.json.success = TRUE
        /\ last.resp.json.connected = TRUE
        /\ last.resp.json.ssid = last.data.ssid
        /\ \E i \in 1..Len(last.resp.json.message) : last.resp.json.message[i] # ""
        /\ connection_status = "connected"
        /\ last.armed = 1

C1_Witness ==
    /\ last.path = "/connect"
    /\ last.result = "True"
    /\ last.data = [ssid |-> "Home-5G", password |-> "secret"]
    /\ last.armed = 1

\* C2 (as claimed): a POST /connect for which connect_to_network returned
\* False (non-zero exit, timeout, or any exception inside it) is answered
\* with the error envelope and has left PortalState as it found it.
C2_FailureLeavesState ==
    (last.path = "/connect" /\ last.result = "False") =>
        ErrorEnvelope(last.resp) /\ ~last.wrote

\* C3: a POST /connect whose ssid is missing or empty is answered with the
\* error envelope, has issued no nmcli command, has not changed PortalState
\* and has started no shutdown thread; the step that answers it changes
\* neither PortalState nor the shutdown threads.
C3_Rejected ==
    /\ last.path = "/connect"
    /\ ("ssid" \notin DOMAIN last.data \/ last.data.ssid = "")

C3_Validation ==
    /\ [](C3_Rejected =>
            /\ ErrorEnvelope(last.resp)
            /\ last.calls = <<>>
            /\ ~last.wrote
            /\ last.armed = 0)
    /\ [][(last' # last /\ C3_Rejected') =>
            UNCHANGED <<is_hotspot_active, connection_status, timers, calls, hist>>]_vars

C3_Witness ==
    /\ last.path = "/connect"
    /\ last.data = [ssid |-> ""]
    /\ last.resp.json.error = "SSID is required"

\* C4: once a POST /connect has been answered with success, the process
\* eventually terminates; it never terminates before a teardown attempt has
\* finished, and nothing is served after it has terminated.
C4_TeardownThenExit ==
    /\ hist.ok_returned ~> terminated
    /\ [](terminated => hist.teardowns > 0)
    /\ [][terminated => (last' = last /\ nreq' = nreq /\ pc' = pc)]_vars

C4_Witness ==
    /\ terminated
    /\ hist.ok_returned
    /\ timers["exit"] > 0
    /\ pcMain.fn = "app.run"

\* C5 (as claimed): at most one shutdown thread is ever started.
C5_ArmedAtMostOnce == hist.armed <= 1

\* C6 (as claimed): a POST /shutdown that is answered is answered with a
\* success envelope, the access point having been torn down.
C6_ShutdownRoute ==
    last.path = "/shutdown" =>
        /\ last.resp.code = 200
        /\ "success" \in DOMAIN last.resp.json
        /\ last.resp.json.success = TRUE
        /\ ~is_hotspot_active

\* C7 (as claimed): is_hotspot_active only if create_hotspot has succeeded
\* and no teardown attempt has finished.
C7_ActiveOnlyBetween ==
    is_hotspot_active => (hist.created /\ hist.teardowns = 0)

\* C8: connection_status starts "disconnected" and its only change is from
\* "disconnected" to "connected".
C8_StatusChangesOnce ==
    /\ connection_status = "disconnected"
    /\ [][connection_status' # connection_status =>
            (connection_status = "disconnected" /\ connection_status' = "connected")]_vars

C8_Witness ==
    /\ connection_status = "connected"
    /\ hist.ok_returned
    /\ last.path = "/connect"
    /\ last.result = "False"
    /\ ~last.wrote

\* C9: GET /status answers with the values PortalState holds when it is
\* handled, and with connection_status "connected" whenever a POST /connect
\* has been answered with success before.
C9_StatusIsCurrent ==
    [][(last' # last /\ last'.path = "/status") =>
          /\ JsonWith(last'.resp, {"hotspot_active", "connection_status", "hotspot_name"})
          /\ last'.resp.json.hotspot_active = is_hotspot_active
          /\ last'.resp.json.connection_status = connection_status
          /\ last'.resp.json.hotspot_name = "Setup-Robot-WiFi"
          /\ (hist.ok_returned => last'.resp.json.connection_status = "connected")]_vars

C9_Witness ==
    /\ last.path = "/status"
    /\ hist.ok_returned
    /\ last.resp.json.connection_status = "connected"

\* The names of the records of an output, in order (every line of at least
\* three fields).
RECURSIVE RecordNames(_)
RecordNames(lines) ==
    IF lines = <<>> THEN <<>>
    ELSE LET parts == Split(Head(lines), ":")
         IN  (IF Len(parts) >= 3 THEN <<Strip(parts[1])>> ELSE <<>>)
                 \o RecordNames(Tail(lines))

ScanAnswered ==
    /\ last.path = "/scan"
    /\ last.data.o = "zero"
    /\ JsonWith(last.resp, {"success", "networks"})

\* C10: the list a scan returns holds each name at most once and is in order
\* of non-increasing signal.
C10_UniqueAndSorted ==
    ScanAnswered =>
        LET networks == last.resp.json.networks
        IN  \A i, j \in 1..Len(networks) :
                i < j => /\ networks[i].ssid # networks[j].ssid
                         /\ networks[i].signal >= networks[j].signal

C10_Witness ==
    /\ ScanAnswered
    /\ LET names == RecordNames(Split(last.data.stdout, "\n"))
           networks == last.resp.json.networks
       IN  /\ \E i, j \in 1..Len(names) : i < j /\ names[i] = names[j] /\ names[i] # <<>>
           /\ Len(networks) = 2
           /\ networks[1].signal > networks[2].signal

\* The records of an output as the list command printed them: the fields of
\* every line of at least three fields.
RECURSIVE Records(_)
Records(lines) ==
    IF lines = <<>> THEN <<>>
    ELSE LET parts == Split(Head(lines), ":")
         IN  (IF Len(parts) >= 3 THEN <<parts>> ELSE <<>>) \o Records(Tail(lines))

ScanRecords == Records(Split(last.data.stdout, "\n"))

\* C11 (as claimed): no record with an empty name is in the list a scan
\* returns, and every non-empty name of the output is.
C11_EveryNonEmptyName ==
    ScanAnswered =>
        LET networks == last.resp.json.networks
        IN  /\ \A i \in 1..Len(networks) : networks[i].ssid # <<>>
            /\ \A k \in 1..Len(ScanRecords) :
                  ScanRecords[k][1] # <<>> =>
                      \E i \in 1..Len(networks) : networks[i].ssid = ScanRecords[k][1]

\* C11 (amended): no record with an empty name is in the list a scan returns,
\* and every name that is not empty once the white space around it is
\* removed is in the list, in that trimmed form.
C11_EveryNonBlankName ==
    ScanAnswered =>
        LET networks == last.resp.json.networks
        IN  /\ \A i \in 1..Len(networks) : networks[i].ssid # <<>>
            /\ \A k \in 1..Len(ScanRecords) :
                  LET name == Strip(ScanRecords[k][1])
                  IN  name # <<>> => \E i \in 1..Len(networks) : networks[i].ssid = name

C11_Witness ==
    /\ ScanAnswered
    /\ \E k \in 1..Len(ScanRecords) : ScanRecords[k][1] = <<>>
    /\ \E k \in 1..Len(ScanRecords) : ScanRecords[k][1] = <<" ">>
    /\ \E k \in 1..Len(ScanRecords) : ScanRecords[k][1] = <<"B">>
    /\ Len(last.resp.json.networks) = 1

\* The signal field read as a signed integer; -100, the list's value for a
\* field that is no integer, otherwise.
SignedValue(part) ==
    IF part # <<>> /\ Head(part) = "-" /\ IsDigit(Tail(part)) THEN 0 - ParseInt(Tail(part))
    ELSE IF IsDigit(part) THEN ParseInt(part)
    ELSE -100

\* C12 (as claimed): every record of the list a scan returns carries the
\* name, the signed-integer signal and the security label ("Open" when none
\* is given) of a record of the output.
C12_RecordsCarried ==
    ScanAnswered =>
        LET networks == last.resp.json.networks
        IN  \A i \in 1..Len(networks) :
                \E k \in 1..Len(ScanRecords) :
                    /\ networks[i].ssid = Strip(ScanRecords[k][1])
                    /\ networks[i].signal = SignedValue(ScanRecords[k][2])
                    /\ networks[i].security =
                          IF ScanRecords[k][3] = <<>> THEN <<"O", "p", "e", "n">>
                          ELSE Strip(ScanRecords[k][3])

\* C13: a request is served only after create_hotspot has succeeded; when it
\* has failed, run() goes to its finally clause and the process ends with no
\* request served.
C13_ServedOnlyAfterCreation ==
    /\ nreq > 0 => hist.created
    /\ last # NoRequest => hist.created
    /\ (\E t \in Handlers : pc[t] # "idle") => hist.created
    /\ pcMain.fn = "app.run" => hist.created
    /\ (terminated /\ ~hist.created) => (nreq = 0 /\ pcMain.fn = "shutdown_hotspot")

C13_Witness ==
    /\ terminated
    /\ ~hist.created
    /\ nreq = 0
    /\ hist.teardowns = 1

\* A shutdown is under way: a shutdown thread's sleep is over, or the main
\* thread has left the server loop for the finally clause.
ShutdownUnderWay ==
    \/ timers["down"] + timers["delete"] + timers["exit"] > 0
    \/ pcMain.fn = "shutdown_hotspot"

\* C14: in shutdown_hotspot the delete is issued only by a thread whose
\* deactivate has returned; and once a shutdown is under way the process
\* reaches its exit, whatever the two invocations do.
C14_TeardownNeverBlocksExit ==
    /\ ShutdownUnderWay ~> terminated
    /\ [][/\ timers'["delete"] > timers["delete"] => timers'["down"] < timers["down"]
          /\ (pcMain'.fn = "shutdown_hotspot" /\ pcMain'.at = "delete" /\ pcMain' # pcMain)
                => pcMain = At("shutdown_hotspot", "down")]_vars

\* The process has ended although a teardown failed: the flag is still set.
C14_Witness ==
    /\ terminated
    /\ hist.created
    /\ hist.teardowns > 0
    /\ is_hotspot_active

\* C15: whatever way the list command fails, the scan route answers with the
\* success envelope around an empty list.
C15_ScanFailureIsEmptyList ==
    (last.path = "/scan" /\ last.data.o # "zero")
        => last.resp = jsonify([success |-> TRUE, networks |-> <<>>])

GetPaths == {"/", "/portal", "/scan", "/status"}

\* C16: a step that answers GET /, /portal, /scan or /status leaves
\* is_hotspot_active, connection_status and the shutdown threads as they
\* were, and starts no shutdown thread.
C16_GetRoutesReadOnly ==
    [][(nreq' = nreq + 1 /\ pc' = pc /\ last'.path \in GetPaths)
          => /\ UNCHANGED <<is_hotspot_active, connection_status, timers>>
             /\ hist'.armed = hist.armed
             /\ last'.armed = 0]_vars

\* A scan whose list command could not be run was answered while the access
\* point was up and a connection had been made.
C16_Witness ==
    /\ last.path = "/scan"
    /\ last.data.o = "raise"
    /\ is_hotspot_active
    /\ connection_status = "connected"

IsJoin(c) ==
    /\ Len(c.cmd) >= 5
    /\ SubSeq(c.cmd, 1, 4) = <<"nmcli", "device", "wifi", "connect">>

\* What connect_to_network may have issued so far for the body d.
IssuedInOrder(log, d) ==
    LET credential == IF "password" \in DOMAIN d THEN d.password ELSE ""
        joins == {i \in 1..Len(log) : IsJoin(log[i])}
    IN  Len(log) > 0 =>
          /\ log[1].cmd = <<"nmcli", "connection", "delete", "id", d.ssid>>
          /\ joins \subseteq {2}
          /\ \A i \in joins :
                log[i].cmd = IF credential # ""
                             THEN <<"nmcli", "device", "wifi", "connect", d.ssid,
                                    "password", credential>>
                             ELSE <<"nmcli", "device", "wifi", "connect", d.ssid>>

\* C17: connect_to_network issues the delete first; when the delete has
\* returned an exit status, zero or not, the join is issued once and only
\* once, after it; the join carries "password" and the password exactly when
\* the password is not empty.
C17_DeleteThenOneJoin ==
    /\ \A t \in Handlers : IssuedInOrder(calls[t], data[t])
    /\ last.path = "/connect" =>
          /\ IssuedInOrder(last.calls, last.data)
          /\ (Len(last.calls) > 0 /\ last.calls[1].o \in {"zero", "nonzero"})
                => (Len(last.calls) >= 2 /\ IsJoin(last.calls[2]))

\* A call whose delete failed went on to a join that carried the password.
C17_Witness ==
    /\ last.path = "/connect"
    /\ Len(last.calls) >= 2
    /\ last.calls[1].o = "nonzero"
    /\ Len(last.calls[2].cmd) = 7
    /\ last.calls[2].cmd[7] = "secret"

\* C18: the step in which a join times out or exits non-zero ends the request
\* with a failure and leaves the process running, is_hotspot_active and the
\* shutdown threads as they were; the process ends only through a shutdown
\* thread or the end of the server loop.
C18_JoinFailureNotFatal ==
    /\ [][\A t \in Handlers : (pc[t] = "join" /\ pc'[t] = "idle")
             => /\ ~terminated'
                /\ UNCHANGED <<is_hotspot_active, timers, pcMain>>
                /\ hist'.armed = hist.armed
                /\ last'.path = "/connect"
                /\ last'.result = "False"
                /\ last'.armed = 0]_vars
    /\ [](terminated => (hist.armed > 0 \/ pcMain.fn # "app.run"))

\* The first request's join failed, and the request accepted after that was
\* a POST /connect that succeeded.
C18_Witness ==
    /\ hist.failed_first
    /\ nreq = 2
    /\ last.path = "/connect"
    /\ last.result = "True"
    /\ hist.armed = 1

\* C19: connect_to_network returns True exactly when the join exited zero,
\* whatever the interface query did.
C19_ResultIsJoinExit ==
    (last.path = "/connect" /\ Len(last.calls) >= 2)
        => (last.result = "True" <=> last.calls[2].o = "zero")

CreateOrder == <<"delete", "add", "modify", "up">>

\* C20: when create_hotspot has returned, it has issued delete, add, modify,
\* up in that order up to the first of add, modify, up that failed, the add
\* being issued whatever the delete did; it returned True with
\* is_hotspot_active set exactly when the three succeeded, and otherwise
\* left is_hotspot_active False.
C20_CreateSteps ==
    pcMain.fn = "run" =>
        LET log == pcMain.log
            n == Len(log)
        IN  /\ n \in 2..4
            /\ \A i \in 1..n : log[i].cmd = CreateCommand(CreateOrder[i])
            /\ \A i \in 2..(n - 1) : log[i].o = "zero"
            /\ pcMain.at = "created" <=> (n = 4 /\ log[4].o = "zero")
            /\ is_hotspot_active <=> pcMain.at = "created"

\* Index of the strongest record of the output that has the name `name`, the
\* signal read as scan_wifi_networks reads it.
Strongest(name) ==
    {k \in 1..Len(ScanRecords) :
        /\ Strip(ScanRecords[k][1]) = name
        /\ \A m \in 1..Len(ScanRecords) :
              Strip(ScanRecords[m][1]) = name
                  => SignalOf(ScanRecords[m][2]) <= SignalOf(ScanRecords[k][2])}

\* C21 (as claimed): the record a scan keeps for a name has the strongest
\* signal among the records of the output with that name.
C21_StrongestKept ==
    ScanAnswered =>
        LET networks == last.resp.json.networks
        IN  \A i \in 1..Len(networks) :
                \E k \in Strongest(networks[i].ssid) :
                    networks[i].signal = SignalOf(ScanRecords[k][2])

\* C22: a shutdown thread has been started only when connection_status is
\* "connected", and the step that starts one completes a POST /connect whose
\* join exited zero and that is answered with success.
C22_ArmedOnlyBySuccess ==
    /\ []((hist.armed > 0 \/ \E p \in TimerPcs : timers[p] > 0)
             => connection_status = "connected")
    /\ [][(hist'.armed > hist.armed \/ timers'["sleep"] > timers["sleep"])
             => /\ last'.path = "/connect"
                /\ last'.result = "True"
                /\ last'.armed = 1
                /\ Len(last'.calls) >= 2
                /\ last'.calls[2].o = "zero"
                /\ \E t \in Handlers : pc[t] = "show" /\ pc'[t] = "idle"]_vars
    /\ [](last.path # "/connect" => last.armed = 0)

\* A shutdown thread is running, started by the request just answered.
C22_Witness ==
    /\ hist.armed = 1
    /\ timers["down"] = 1
    /\ last.path = "/connect"
    /\ last.armed = 1
    /\ connection_status = "connected"

\* C23: connection_status is "connected" only if a join has exited zero, so
\* GET /status answers "connected" only then.
C23_ConnectedOnlyAfterJoin ==
    /\ connection_status = "connected" => hist.join_zero
    /\ (last.path = "/status" /\ last.resp.json.connection_status = "connected")
          => hist.join_zero
    /\ (last.path = "/status" /\ ~hist.join_zero)
          => last.resp.json.connection_status = "disconnected"

\* GET /status answered "disconnected" after a join had failed.
C23_Witness ==
    /\ last.path = "/status"
    /\ hist.failed_first
    /\ ~hist.join_zero
    /\ last.resp.json.connection_status = "disconnected"

\* C24 (as claimed): when os._exit ends the process, no request thread is
\* inside connect_wifi.
C24_NoRequestCutOff ==
    (terminated /\ pcMain.fn = "app.run") => \A t \in Handlers : pc[t] = "idle"

====
